---- MODULE Spec2Model ----
(***************************************************************************)
(* Model of the reflection code generator                                  *)
(* src/Shared/Reflection/reflection_codegen.py: one run of main() as a     *)
(* sequence of file-system steps (cache read, scan, header, per-class      *)
(* fragments, stale-file reaping, aggregator files, cache write), followed *)
(* by a second run over an edited source tree.                             *)
(*                                                                         *)
(* Text is modelled as a sequence of tokens: an identifier is one token,   *)
(* every punctuation or blank character is a token of its own.  A path is  *)
(* a record of its area (the output directory itself or its classes        *)
(* subdirectory), its directory components, the stem of the file name and  *)
(* the rest of the file name.                                              *)
(***************************************************************************)
EXTENDS Integers, Sequences, FiniteSets, TLC

VARIABLES
    tree,            \* the source tree: annotated classes in scan order
    skipFactoryEnv,  \* HELIANTHUS_REFLECTION_SKIP_FACTORY_AUTO_REGISTER is set
    disk,            \* the output directory: path -> content
    locked,          \* files of the output directory that os.remove cannot remove
    cacheFile,       \* <out_dir>/.refl_cache.json as persisted
    pc,              \* position of main()
    cache,           \* main(): cache
    all_classes,     \* main(): all_classes
    includes,        \* main(): includes
    idx,             \* generate_per_class_files: position of the class loop
    class_hash_map,  \* generate_per_class_files: class_hash_map
    alive_files,     \* generate_per_class_files: alive_files
    error,           \* how the run ended early: "none", "io" or "attr"
    phase,           \* "first" or "second" run
    prevTree,        \* the tree the previous run saw
    prevOk,          \* the previous run completed
    cacheAtStart,    \* the cache file when the run started
    written,         \* paths written so far in this run
    deleted,         \* paths deleted so far in this run
    removeFailed,    \* some os.remove of this run failed
    emitDone,        \* emission steps completed so far in this run
    emitLog,         \* one entry per class emitted in this run
    hc1,             \* hash check: first class record
    hc2,             \* hash check: second class record
    h1,              \* hash check: hash of hc1
    h2,              \* hash check: hash of hc2
    arg,             \* function check: the argument of the function under check
    result,          \* function check: what the function returned
    g_ReflectionInitialized,  \* generated code: the flag of RegisterAllClasses
    callers,         \* generated code: position of each caller of RegisterAllClasses
    registered       \* generated code: executions of RegisterClass_<Name> per class

mainVars == <<tree, skipFactoryEnv, disk, locked, cacheFile, pc, cache, all_classes,
              includes, idx, class_hash_map, alive_files, error, phase,
              prevTree, prevOk, cacheAtStart, written, deleted, removeFailed,
              emitDone, emitLog>>
hashVars == <<hc1, hc2, h1, h2>>
fnVars == <<arg, result>>
runtimeVars == <<g_ReflectionInitialized, callers, registered>>
sideVars == <<hashVars, fnVars, runtimeVars>>
vars == <<mainVars, sideVars>>

----------------------------------------------------------------------------
(* Sequence helpers *)

Range(s) == {s[i] : i \in 1..Len(s)}

RemoveAt(s, k) == [i \in 1..(Len(s) - 1) |-> IF i < k THEN s[i] ELSE s[i + 1]]

SeqMap(F(_), s) == [i \in 1..Len(s) |-> F(s[i])]

Contains(s, x) == \E i \in 1..Len(s) : s[i] = x

Count(s, x) == Cardinality({i \in 1..Len(s) : s[i] = x})

\* the first index of s holding x
FirstIndex(s, x) == CHOOSE i \in 1..Len(s) : s[i] = x /\ \A j \in 1..(i - 1) : s[j] # x

\* s without the elements that occurred earlier in s
Dedup(s) ==
    LET keep == {i \in 1..Len(s) : \A j \in 1..(i - 1) : s[j] # s[i]}
        F[i \in 0..Len(s)] ==
            IF i = 0 THEN <<>>
            ELSE IF i \in keep THEN Append(F[i - 1], s[i]) ELSE F[i - 1]
    IN F[Len(s)]

EmptyMap == [x \in {} |-> x]

Put(f, k, v) == [x \in (DOMAIN f) \cup {k} |-> IF x = k THEN v ELSE f[x]]

----------------------------------------------------------------------------
(* Token text *)

IsBlank(t) == t = " "

\* str.strip()
RECURSIVE LStrip(_)
LStrip(s) == IF s # <<>> /\ IsBlank(Head(s)) THEN LStrip(Tail(s)) ELSE s

RECURSIVE RStrip(_)
RStrip(s) ==
    IF s # <<>> /\ IsBlank(s[Len(s)]) THEN RStrip(SubSeq(s, 1, Len(s) - 1)) ELSE s

Strip(s) == LStrip(RStrip(s))

\* str.split(sep) for a separator of one token
RECURSIVE SplitOn(_, _)
SplitOn(s, sep) ==
    IF ~Contains(s, sep) THEN <<s>>
    ELSE LET k == FirstIndex(s, sep)
         IN <<SubSeq(s, 1, k - 1)>> \o SplitOn(SubSeq(s, k + 1, Len(s)), sep)

RECURSIVE Flatten(_)
Flatten(ss) == IF ss = <<>> THEN <<>> ELSE Head(ss) \o Flatten(Tail(ss))

\* _parse_tags: split on | and on , then trim, drop empties, keep first
\* occurrences.  A tag is returned as its token sequence.
ParseTags(tag_str) ==
    IF tag_str = <<>> THEN <<>>
    ELSE LET SplitComma(part) == SplitOn(part, ",")
             subparts == Flatten(SeqMap(SplitComma, SplitOn(tag_str, "|")))
             cleaned == SeqMap(Strip, subparts)
             NonEmpty(t) == t # <<>>
         IN Dedup(SelectSeq(cleaned, NonEmpty))

----------------------------------------------------------------------------
(* Class records: one element of all_classes.  src is the source file      *)
(* relative to the source root; sig_map holds, in insertion order, what    *)
(* extract_members stores in param_map, return_map, tags_map, comment_map  *)
(* and qualifier_map under one (tag, method) key.                          *)

Strs(s) == <<s>>

HeaderExts == {".h", ".hpp", ".hh", ".hxx"}

\* as HeaderMode, with .h the only header extension
HeaderModeDotH(c) == c.src.ext = ".h"

\* main(): header_mode
HeaderMode(c) == c.src.ext \in HeaderExts

\* main(): rel_dir, as directory components
RelDir(c) == c.src.dir

DefaultQualifiers ==
    [is_pure_function |-> FALSE, is_const |-> FALSE, is_noexcept |-> FALSE,
     is_virtual |-> FALSE, is_override |-> FALSE, is_final |-> FALSE,
     is_inline |-> FALSE, is_deprecated |-> FALSE, is_static |-> FALSE,
     access_modifier |-> "Public", other_qualifiers |-> <<>>]

HasSig(c, key) == \E i \in 1..Len(c.sig_map) : c.sig_map[i].key = key

SigOf(c, key) == c.sig_map[CHOOSE i \in 1..Len(c.sig_map) : c.sig_map[i].key = key]

StructuralTags ==
    {Strs("Static"), Strs("Virtual"), Strs("Const"), Strs("Noexcept"),
     Strs("Override"), Strs("Final"), Strs("Inline")}

\* generate_per_class_files: raw_tags of one method, then the business tags
RawTags(c, meth) ==
    IF HasSig(c, meth) THEN SigOf(c, meth).tags
    ELSE LET same == {i \in 1..Len(c.sig_map) :
                         c.sig_map[i].key[2] = meth[2] /\ c.sig_map[i].tags # <<>>}
         IN IF same # {}
            THEN c.sig_map[CHOOSE i \in same : \A j \in same : i <= j].tags
            ELSE ParseTags(meth[1])

MethodTags(c, meth) ==
    LET Business(t) == t \notin StructuralTags IN SelectSeq(RawTags(c, meth), Business)

\* generate_per_class_files: clean_tag of a property
CleanTag(tag) ==
    LET NotQuote(t) == t \notin {"\"", "'"} IN Strip(SelectSeq(tag, NotQuote))

PropSkipped(tag) == Contains(CleanTag(tag), " ") \/ CleanTag(tag) = <<>>

PropLine(c, prop) ==
    [call |-> "RegisterProperty", class |-> c.name, member |-> prop[2],
     tag |-> CleanTag(prop[1]),
     layout |-> IF HeaderMode(c) THEN <<"offsetof", c.name, prop[2]>> ELSE <<"0", "0">>]

MethodLine(c, meth) ==
    LET q == IF HasSig(c, meth) THEN SigOf(c, meth).qualifiers ELSE DefaultQualifiers
    IN [call |-> "RegisterMethodEx", class |-> c.name, method |-> meth[2],
        tags |-> MethodTags(c, meth),
        ret |-> IF HasSig(c, meth) THEN SigOf(c, meth).ret ELSE <<>>,
        comment |-> IF HasSig(c, meth) THEN SigOf(c, meth).comment ELSE <<>>,
        params |-> IF HasSig(c, meth) THEN SigOf(c, meth).params ELSE <<>>,
        qualifiers |-> q]

\* generate_per_class_files: reg_content
RegContent(c) ==
    LET TagLine(t) == [call |-> "AddClassTag", class |-> c.name, tag |-> t]
        Kept(prop) == ~PropSkipped(prop[1])
        PL(prop) == PropLine(c, prop)
        ML(meth) == MethodLine(c, meth)
        FL(func) == [call |-> "RegisterMethodEx", class |-> c.name, method |-> func,
                     tags |-> <<Strs("Function")>>]
    IN <<[call |-> "RegisterClass", class |-> c.name]>>
       \o SeqMap(TagLine, c.tags)
       \o SeqMap(PL, SelectSeq(c.props, Kept))
       \o SeqMap(ML, c.meths)
       \o SeqMap(FL, c.sfuncs)

\* generate_per_class_files: svc_content
SvcContent(c, skipEnv) ==
    LET no_auto == Contains(c.tags, "NoAutoRegister")
        first == {i \in 1..Len(c.meths) :
                     \A j \in 1..(i - 1) : c.meths[j][2] # c.meths[i][2]}
        F[i \in 0..Len(c.meths)] ==
            IF i = 0 THEN <<>>
            ELSE IF i \in first
                 THEN Append(F[i - 1],
                             [call |-> "RegisterMethod", class |-> c.name,
                              method |-> c.meths[i][2],
                              tags |-> MethodTags(c, c.meths[i])])
                 ELSE F[i - 1]
    IN <<[call |-> "RegisterRpc", class |-> c.name]>>
       \o (IF ~no_auto /\ ~skipEnv
           THEN <<[call |-> "RegisterService", class |-> c.name,
                   real |-> c.has_rpc_factory]>>
           ELSE <<>>)
       \o F[Len(c.meths)]

\* hashlib.sha256 of the serialized payload, taken as collision free
Sha256(data) == <<"sha256", data>>

\* _compute_class_hash: json.dumps(sort_keys=True) orders the keys of every
\* dict (a record here) and leaves every list in the order it was given
ClassHash(c) ==
    LET MethPayload(meth) ==
            [tag |-> meth[1], name |-> meth[2],
             ret |-> IF HasSig(c, meth) THEN SigOf(c, meth).ret ELSE <<>>,
             tags |-> IF HasSig(c, meth) THEN SigOf(c, meth).tags ELSE <<meth[1]>>,
             params |-> IF HasSig(c, meth) THEN SigOf(c, meth).params ELSE <<>>,
             comment |-> IF HasSig(c, meth) THEN SigOf(c, meth).comment ELSE <<>>,
             qualifiers |-> IF HasSig(c, meth) THEN SigOf(c, meth).qualifiers
                            ELSE EmptyMap]
    IN Sha256([name |-> c.name, tags |-> c.tags, props |-> c.props,
               meths |-> SeqMap(MethPayload, c.meths), sfuncs |-> c.sfuncs,
               rpc_factory |-> c.has_rpc_factory, header_mode |-> HeaderMode(c),
               rel_dir |-> RelDir(c)])

----------------------------------------------------------------------------
(* Paths and generated files *)

OutFile(stem, suffix) == [area |-> "out", dir |-> <<>>, stem |-> stem, suffix |-> suffix]

HeaderPath == OutFile("reflection_gen", ".h")
RegistrationsPath == OutFile("reflection_registrations", ".cpp")
ServicesPath == OutFile("reflection_services", ".cpp")
AutoMountPath == OutFile("reflection_auto_mount", ".cpp")
InitPath == OutFile("reflection_init", ".cpp")
CompilationPath == OutFile("reflection_classes_compilation", ".cpp")

AggregatorPaths ==
    {HeaderPath, RegistrationsPath, ServicesPath, AutoMountPath, InitPath,
     CompilationPath}

FragmentSuffixes == {"_registration.cpp", "_services.cpp"}

\* generate_per_class_files: reg_path and svc_path
RegPath(c) ==
    [area |-> "classes", dir |-> RelDir(c), stem |-> c.name,
     suffix |-> "_registration.cpp"]

SvcPath(c) ==
    [area |-> "classes", dir |-> RelDir(c), stem |-> c.name,
     suffix |-> "_services.cpp"]

\* rel_dir.startswith('Tests/'): the first component is Tests and another
\* component follows it
StartsWithTestsSlash(dir) == Len(dir) >= 2 /\ dir[1] = "Tests"

\* the filter of the aggregators
Filtered(classes) ==
    LET Kept(c) == ~StartsWithTestsSlash(RelDir(c)) IN SelectSeq(classes, Kept)

ClassName(c) == c.name

\* generate_header_file: the includes are emitted sorted, so the set decides
HeaderContent(incl) == [file |-> "reflection_gen.h", includes |-> incl]

\* generate_registrations_file
RegistrationsContent(classes) ==
    [file |-> "reflection_registrations.cpp",
     declared |-> SeqMap(ClassName, Filtered(classes)),
     called |-> SeqMap(ClassName, Filtered(classes))]

\* generate_services_file
ServicesContent(classes) ==
    [file |-> "reflection_services.cpp",
     declared |-> SeqMap(ClassName, Filtered(classes)),
     called |-> SeqMap(ClassName, Filtered(classes))]

\* generate_auto_mount_file and generate_init_file emit fixed text
AutoMountContent == [file |-> "reflection_auto_mount.cpp"]

InitContent == [file |-> "reflection_init.cpp"]

\* generate_classes_compilation_file
CompilationContent(classes) ==
    LET Pair(c) == <<RegPath(c), SvcPath(c)>>
    IN [file |-> "reflection_classes_compilation.cpp",
        included |-> Flatten(SeqMap(Pair, Filtered(classes)))]

\* main(): the header-mode sources collected into includes
Includes(classes) == {c.src : c \in {d \in Range(classes) : HeaderMode(d)}}

\* _write_if_changed: whether the file is opened for writing
NeedsWrite(d, path, content) == ~(path \in DOMAIN d /\ d[path] = content)

----------------------------------------------------------------------------
(* Inputs: the annotated classes a source tree may hold, and what the      *)
(* output directory and the cache file may hold before the first run.      *)

MaxClasses == 2

SampleSigMap ==
    <<[key |-> <<Strs("Rpc"), "Run">>, ret |-> Strs("void"),
       tags |-> ParseTags(Strs("Rpc")), params |-> <<>>, comment |-> <<>>,
       qualifiers |-> DefaultQualifiers]>>

SampleClass(name, dir, ext) ==
    [name |-> name, tags |-> <<"Game">>,
     props |-> <<<<Strs("Config"), "x">>>>,
     meths |-> <<<<Strs("Rpc"), "Run">>>>,
     sfuncs |-> <<>>, has_rpc_factory |-> FALSE, sig_map |-> SampleSigMap,
     src |-> [dir |-> dir, stem |-> name, ext |-> ext]]

\* A twice in the root directory (header and translation unit), A again in
\* another directory, B in the Tests directory and below it
SourceClasses ==
    {SampleClass("A", <<>>, ".h"), SampleClass("A", <<>>, ".cpp"),
     SampleClass("A", <<"m">>, ".h"),
     SampleClass("B", <<"Tests">>, ".h"), SampleClass("B", <<"Tests", "u">>, ".h")}

Trees ==
    {t \in UNION {[1..n -> SourceClasses] : n \in 0..MaxClasses} :
        \A i, j \in 1..Len(t) : i # j => t[i] # t[j]}

\* files found in the output directory before the first run: a file of the
\* user in the classes directory, a file outside it that is named like a
\* fragment, the fragment of a class that is gone, and a fragment that an
\* earlier run wrote for class A of directory m
NotesFile == [area |-> "classes", dir |-> <<>>, stem |-> "notes", suffix |-> ".txt"]

OldFile == [area |-> "out", dir |-> <<>>, stem |-> "Old", suffix |-> "_registration.cpp"]

GoneFile == [area |-> "classes", dir |-> <<"m">>, stem |-> "Gone", suffix |-> "_services.cpp"]

OldContent == <<[call |-> "old"]>>

InitialDisk ==
    LET a == SampleClass("A", <<"m">>, ".h")
    IN [p \in {NotesFile, OldFile, GoneFile, SvcPath(a)} |->
           IF p = SvcPath(a) THEN SvcContent(a, FALSE) ELSE OldContent]

\* the fragment of the class that is gone may be write protected
LockedSets == {{}, {GoneFile}}

\* the cache file before the first run: absent, not JSON, or JSON that is a
\* list; a mapping is what a run leaves
InitialCaches == {[kind |-> "absent"], [kind |-> "invalid"], [kind |-> "list"]}

EmptyCache == [kind |-> "map", map |-> EmptyMap]

NoClass == [name |-> "none"]

----------------------------------------------------------------------------
(* The run *)

HashIdle == hc1 = NoClass /\ hc2 = NoClass /\ h1 = <<>> /\ h2 = <<>>

\* no function is under check
FnIdle == arg = <<>> /\ result = <<>>

\* the generated code does not run
RuntimeIdle ==
    /\ g_ReflectionInitialized = FALSE
    /\ callers = EmptyMap
    /\ registered = EmptyMap

Init ==
    /\ tree \in Trees
    /\ skipFactoryEnv \in BOOLEAN
    /\ disk = InitialDisk
    /\ locked \in LockedSets
    /\ cacheFile \in InitialCaches
    /\ pc = "idle"
    /\ cache = EmptyCache
    /\ all_classes = <<>>
    /\ includes = {}
    /\ idx = 1
    /\ class_hash_map = EmptyMap
    /\ alive_files = {}
    /\ error = "none"
    /\ phase = "first"
    /\ prevTree = <<>>
    /\ prevOk = FALSE
    /\ cacheAtStart = cacheFile
    /\ written = {}
    /\ deleted = {}
    /\ removeFailed = FALSE
    /\ emitDone = {}
    /\ emitLog = <<>>
    /\ HashIdle
    /\ FnIdle
    /\ RuntimeIdle

\* as Fail, with the exception swallowed: main() goes on to write the cache
FailSwallowed(kind) ==
    /\ pc' = "cache"
    /\ error' = kind

\* the exception leaves main(): the run is over, nothing more is written
Fail(kind) ==
    /\ pc' = "failed"
    /\ error' = kind

\* main(), lines 385-413: the cache is read, the sources are scanned
StartRun ==
    /\ pc = "idle"
    /\ cache' = IF cacheFile.kind \in {"absent", "invalid"} THEN EmptyCache ELSE cacheFile
    /\ all_classes' = tree
    /\ includes' = Includes(tree)
    /\ cacheAtStart' = cacheFile
    /\ pc' = "header"
    /\ UNCHANGED <<tree, skipFactoryEnv, locked, disk, cacheFile, idx, class_hash_map,
                   alive_files, error, phase, prevTree, prevOk, written, deleted,
                   removeFailed, emitDone, emitLog, sideVars>>

\* _write_if_changed as the whole body of an emission step: the file is
\* left alone when it holds the content already, the write may fail
EmitFile(path, content, failed, step, next) ==
    /\ failed => NeedsWrite(disk, path, content)
    /\ IF failed
       THEN /\ Fail("io")
            /\ UNCHANGED <<disk, written, emitDone>>
       ELSE /\ disk' = IF NeedsWrite(disk, path, content) THEN Put(disk, path, content)
                       ELSE disk
            /\ written' = IF NeedsWrite(disk, path, content) THEN written \cup {path}
                          ELSE written
            /\ emitDone' = emitDone \cup {step}
            /\ pc' = next
            /\ UNCHANGED error
    /\ UNCHANGED <<tree, skipFactoryEnv, locked, cacheFile, cache, all_classes, includes, idx,
                   class_hash_map, alive_files, phase, prevTree, prevOk, cacheAtStart,
                   deleted, removeFailed, emitLog, sideVars>>

\* generate_header_file: os.makedirs(out_dir) may fail, then the write
GenerateHeaderFile ==
    /\ pc = "header"
    /\ \/ /\ Fail("io")
          /\ UNCHANGED <<tree, skipFactoryEnv, locked, disk, cacheFile, cache, all_classes,
                         includes, idx, class_hash_map, alive_files, phase, prevTree,
                         prevOk, cacheAtStart, written, deleted, removeFailed,
                         emitDone, emitLog, sideVars>>
       \/ \E failed \in BOOLEAN :
              EmitFile(HeaderPath, HeaderContent(includes), failed, "header", "mkclasses")

\* main(), line 420: os.makedirs(classes_dir), then the class loop starts
MakeClassesDir ==
    /\ pc = "mkclasses"
    /\ \/ Fail("io") /\ UNCHANGED <<idx, class_hash_map, alive_files>>
       \/ /\ pc' = "perclass"
          /\ idx' = 1
          /\ class_hash_map' = EmptyMap
          /\ alive_files' = {}
          /\ UNCHANGED error
    /\ UNCHANGED <<tree, skipFactoryEnv, locked, disk, cacheFile, cache, all_classes,
                   includes, phase, prevTree, prevOk, cacheAtStart, written, deleted,
                   removeFailed, emitDone, emitLog, sideVars>>

\* the hash the cache read at start holds for the class equals this run's
CachedHashEqual(c) ==
    /\ cache.kind = "map"
    /\ c.name \in DOMAIN cache.map
    /\ cache.map[c.name] = ClassHash(c)

\* generate_per_class_files, one pass of the class loop (lines 586-694):
\* hash, makedirs, alive paths, cache.get, the two conditional writes
EmitClass ==
    /\ pc = "perclass"
    /\ idx <= Len(all_classes)
    /\ LET c == all_classes[idx]
           wreg == NeedsWrite(disk, RegPath(c), RegContent(c))
           disk1 == IF wreg THEN Put(disk, RegPath(c), RegContent(c)) ELSE disk
           wsvc == NeedsWrite(disk1, SvcPath(c), SvcContent(c, skipFactoryEnv))
           disk2 == IF wsvc THEN Put(disk1, SvcPath(c), SvcContent(c, skipFactoryEnv))
                    ELSE disk1
       IN /\ class_hash_map' = Put(class_hash_map, c.name, ClassHash(c))
          /\ \/ \* os.makedirs(target_dir) fails
                /\ Fail("io")
                /\ UNCHANGED <<disk, written, alive_files, idx, emitLog>>
             \/ \* cache.get on a value that is no dict
                /\ cache.kind # "map"
                /\ Fail("attr")
                /\ alive_files' = alive_files \cup {RegPath(c), SvcPath(c)}
                /\ UNCHANGED <<disk, written, idx, emitLog>>
             \/ \* the write of the registration fragment fails
                /\ cache.kind = "map"
                /\ wreg
                /\ Fail("io")
                /\ alive_files' = alive_files \cup {RegPath(c), SvcPath(c)}
                /\ UNCHANGED <<disk, written, idx, emitLog>>
             \/ \* the write of the services fragment fails
                /\ cache.kind = "map"
                /\ wsvc
                /\ Fail("io")
                /\ alive_files' = alive_files \cup {RegPath(c), SvcPath(c)}
                /\ disk' = disk1
                /\ written' = IF wreg THEN written \cup {RegPath(c)} ELSE written
                /\ UNCHANGED <<idx, emitLog>>
             \/ /\ cache.kind = "map"
                /\ alive_files' = alive_files \cup {RegPath(c), SvcPath(c)}
                /\ disk' = disk2
                /\ written' = written \cup (IF wreg THEN {RegPath(c)} ELSE {})
                                      \cup (IF wsvc THEN {SvcPath(c)} ELSE {})
                /\ emitLog' = Append(emitLog, [class |-> c, hashEqual |-> CachedHashEqual(c),
                                               wroteReg |-> wreg, wroteSvc |-> wsvc])
                /\ idx' = idx + 1
                /\ UNCHANGED <<pc, error>>
    /\ UNCHANGED <<tree, skipFactoryEnv, locked, cacheFile, cache, all_classes, includes,
                   phase, prevTree, prevOk, cacheAtStart, deleted, removeFailed,
                   emitDone, sideVars>>

\* as Stale, for a walk that does not descend below the classes directory
StaleTopLevel(d, alive) ==
    {p \in DOMAIN d : p.area = "classes" /\ p.dir = <<>>
                         /\ p.suffix \in FragmentSuffixes /\ p \notin alive}

\* as Stale, without the test of the file name
StaleAnyName(d, alive) == {p \in DOMAIN d : p.area = "classes" /\ p \notin alive}

\* the files the walk of the classes directory takes for stale fragments
Stale(d, alive) ==
    {p \in DOMAIN d : p.area = "classes" /\ p.suffix \in FragmentSuffixes /\ p \notin alive}

\* generate_per_class_files, lines 696-711: every stale file is removed; the
\* os.remove of a file that cannot be removed fails and is swallowed
Reap ==
    /\ pc = "perclass"
    /\ idx > Len(all_classes)
    /\ LET removed == Stale(disk, alive_files) \ locked
       IN /\ disk' = [p \in (DOMAIN disk) \ removed |-> disk[p]]
          /\ deleted' = deleted \cup removed
          /\ removeFailed' = (removeFailed \/ Stale(disk, alive_files) \cap locked # {})
    /\ emitDone' = emitDone \cup {"fragments"}
    /\ pc' = "registrations"
    /\ UNCHANGED <<tree, skipFactoryEnv, locked, cacheFile, cache, all_classes, includes,
                   idx, class_hash_map, alive_files, error, phase, prevTree, prevOk,
                   cacheAtStart, written, emitLog, sideVars>>

GenerateRegistrationsFile ==
    /\ pc = "registrations"
    /\ \E failed \in BOOLEAN :
          EmitFile(RegistrationsPath, RegistrationsContent(all_classes), failed,
                   "registrations", "services")

GenerateServicesFile ==
    /\ pc = "services"
    /\ \E failed \in BOOLEAN :
          EmitFile(ServicesPath, ServicesContent(all_classes), failed,
                   "services", "auto_mount")

GenerateAutoMountFile ==
    /\ pc = "auto_mount"
    /\ \E failed \in BOOLEAN :
          EmitFile(AutoMountPath, AutoMountContent, failed, "auto_mount", "init")

GenerateInitFile ==
    /\ pc = "init"
    /\ \E failed \in BOOLEAN :
          EmitFile(InitPath, InitContent, failed, "init", "compilation")

GenerateClassesCompilationFile ==
    /\ pc = "compilation"
    /\ \E failed \in BOOLEAN :
          EmitFile(CompilationPath, CompilationContent(all_classes), failed,
                   "compilation", "cache")

\* main(), lines 437-442: the cache is written back; a failing open is
\* swallowed and leaves the file as it was
WriteCache ==
    /\ pc = "cache"
    /\ cacheFile' \in {[kind |-> "map", map |-> class_hash_map], cacheFile}
    /\ pc' = "done"
    /\ UNCHANGED <<tree, skipFactoryEnv, locked, disk, cache, all_classes, includes, idx,
                   class_hash_map, alive_files, error, phase, prevTree, prevOk,
                   cacheAtStart, written, deleted, removeFailed, emitDone, emitLog,
                   sideVars>>

----------------------------------------------------------------------------
(* Between the two runs the source tree is left alone, loses a class or    *)
(* gains one; the process of the second run starts with fresh memory.      *)

NewProcess(t) ==
    /\ pc \in {"done", "failed"}
    /\ phase = "first"
    /\ phase' = "second"
    /\ tree' = t
    /\ prevTree' = tree
    /\ prevOk' = (pc = "done")
    /\ pc' = "idle"
    /\ cache' = EmptyCache
    /\ all_classes' = <<>>
    /\ includes' = {}
    /\ idx' = 1
    /\ class_hash_map' = EmptyMap
    /\ alive_files' = {}
    /\ error' = "none"
    /\ cacheAtStart' = cacheFile
    /\ written' = {}
    /\ deleted' = {}
    /\ removeFailed' = FALSE
    /\ emitDone' = {}
    /\ emitLog' = <<>>
    /\ UNCHANGED <<skipFactoryEnv, locked, disk, cacheFile, sideVars>>

RerunUnchanged == NewProcess(tree)

RemoveClass == \E k \in 1..Len(tree) : NewProcess(RemoveAt(tree, k))

AddClass ==
    /\ Len(tree) < MaxClasses
    /\ \E c \in SourceClasses \ Range(tree) : NewProcess(Append(tree, c))

Next ==
    \/ StartRun
    \/ GenerateHeaderFile
    \/ MakeClassesDir
    \/ EmitClass
    \/ Reap
    \/ GenerateRegistrationsFile
    \/ GenerateServicesFile
    \/ GenerateAutoMountFile
    \/ GenerateInitFile
    \/ GenerateClassesCompilationFile
    \/ WriteCache
    \/ RerunUnchanged
    \/ RemoveClass
    \/ AddClass

Spec == Init /\ [][Next]_vars

----------------------------------------------------------------------------
(* The class hash on its own: two records of one class that list the same  *)
(* tags, properties and methods, each list in either order.                *)

HashSigMap ==
    <<[key |-> <<Strs("Rpc"), "Run">>, ret |-> Strs("void"),
       tags |-> ParseTags(Strs("Rpc")), params |-> <<>>, comment |-> <<>>,
       qualifiers |-> DefaultQualifiers],
      [key |-> <<Strs("Admin"), "Stop">>, ret |-> Strs("int"),
       tags |-> ParseTags(Strs("Admin")), params |-> <<"code">>, comment |-> <<>>,
       qualifiers |-> DefaultQualifiers]>>

Orders(a, b) == {<<a, b>>, <<b, a>>}

HashClasses ==
    {[name |-> "H", tags |-> t, props |-> p, meths |-> m, sfuncs |-> <<"Make">>,
      has_rpc_factory |-> TRUE, sig_map |-> HashSigMap,
      src |-> [dir |-> <<"m">>, stem |-> "H", ext |-> ".h"]] :
        t \in Orders("Game", "Net"),
        p \in Orders(<<Strs("Config"), "x">>, <<Strs("Save"), "y">>),
        m \in Orders(<<Strs("Rpc"), "Run">>, <<Strs("Admin"), "Stop">>)}

\* the two records differ at most in the order of tags, properties, methods
SameUpToOrder(c, d) ==
    /\ c.name = d.name /\ c.src = d.src /\ c.has_rpc_factory = d.has_rpc_factory
    /\ c.sfuncs = d.sfuncs /\ c.sig_map = d.sig_map
    /\ Len(c.tags) = Len(d.tags) /\ Range(c.tags) = Range(d.tags)
    /\ Len(c.props) = Len(d.props) /\ Range(c.props) = Range(d.props)
    /\ Len(c.meths) = Len(d.meths) /\ Range(c.meths) = Range(d.meths)

\* main() does not run: the checks of single functions leave its state alone
MainIdle ==
    /\ tree = <<>>
    /\ skipFactoryEnv = FALSE
    /\ disk = EmptyMap
    /\ locked = {}
    /\ cacheFile = [kind |-> "absent"]
    /\ pc = "off"
    /\ cache = EmptyCache
    /\ all_classes = <<>>
    /\ includes = {}
    /\ idx = 1
    /\ class_hash_map = EmptyMap
    /\ alive_files = {}
    /\ error = "none"
    /\ phase = "first"
    /\ prevTree = <<>>
    /\ prevOk = FALSE
    /\ cacheAtStart = cacheFile
    /\ written = {}
    /\ deleted = {}
    /\ removeFailed = FALSE
    /\ emitDone = {}
    /\ emitLog = <<>>

HashInit ==
    /\ hc1 \in HashClasses
    /\ hc2 \in HashClasses
    /\ h1 = <<>>
    /\ h2 = <<>>
    /\ MainIdle
    /\ FnIdle
    /\ RuntimeIdle

ComputeHashes ==
    /\ h1 = <<>>
    /\ h1' = ClassHash(hc1)
    /\ h2' = ClassHash(hc2)
    /\ UNCHANGED <<hc1, hc2, mainVars, fnVars, runtimeVars>>

HashNext == ComputeHashes

SpecHash == HashInit /\ [][HashNext]_vars

----------------------------------------------------------------------------
(* Claims *)

SecondRunOfSameTree == phase = "second" /\ prevOk /\ tree = prevTree

\* C1: a second run on the unchanged tree, on the output directory the first
\* run left, writes no generated file.
C1_SecondRunWritesNothing == SecondRunOfSameTree => written = {}

\* the class that run 2 no longer sees
RemovedFrom(prev, cur) == {k \in 1..Len(prev) : cur = RemoveAt(prev, k)}

FragmentPaths(classes) == UNION {{RegPath(c), SvcPath(c)} : c \in Range(classes)}

\* C2: when run 2 sees the classes of run 1 but one, C, then after run 2
\* exactly the two fragments of C are deleted, the aggregator files hold no
\* entry for C (no more entries of its name or of its fragment paths than
\* classes of that name or path are left) and no fragment of another class
\* is written.
C2_RemovedClassOnlyLosesItsFragments ==
    (phase = "second" /\ prevOk /\ pc = "done") =>
        \A k \in RemovedFrom(prevTree, tree) :
            LET C == prevTree[k]
                named == Cardinality({i \in 1..Len(tree) : tree[i].name = C.name})
                placed == Cardinality({i \in 1..Len(tree) : RegPath(tree[i]) = RegPath(C)})
            IN /\ deleted = {RegPath(C), SvcPath(C)}
               /\ Count(disk[RegistrationsPath].declared, C.name) <= named
               /\ Count(disk[RegistrationsPath].called, C.name) <= named
               /\ Count(disk[ServicesPath].declared, C.name) <= named
               /\ Count(disk[ServicesPath].called, C.name) <= named
               /\ Count(disk[CompilationPath].included, RegPath(C)) <= placed
               /\ Count(disk[CompilationPath].included, SvcPath(C)) <= placed
               /\ written \cap FragmentPaths(tree) = {}

\* C3: a step removes only files of the classes directory that are named
\* like a fragment and are not in the alive set of the run.
C3_ReaperConservative ==
    [][\A p \in (DOMAIN disk) \ (DOMAIN disk') :
          /\ p.area = "classes"
          /\ p.suffix \in FragmentSuffixes
          /\ p \notin alive_files]_vars

\* a run that deleted a stale fragment and kept the files of the user and
\* the fragments of its two classes
C3_Witness ==
    /\ pc = "registrations"
    /\ deleted # {}
    /\ Cardinality(alive_files) = 4
    /\ alive_files \subseteq DOMAIN disk
    /\ NotesFile \in DOMAIN disk
    /\ OldFile \in DOMAIN disk

EmissionSteps ==
    {"header", "fragments", "registrations", "services", "auto_mount", "init",
     "compilation"}

\* C4: once the run has deleted a file, every emission step of the run is
\* complete and the alive set holds the fragment paths of every class.
C4_ReapAfterAllEmission ==
    deleted # {} =>
        /\ EmissionSteps \subseteq emitDone
        /\ FragmentPaths(all_classes) \subseteq alive_files

\* C5: no content of the cache file makes the run fail.
C5_CacheNeverFatal == error # "attr"

\* C6: the fragments of a class are left unwritten when the cache read at
\* start holds this run's hash for the class, and written otherwise.
C6_CacheDrivesRewrite ==
    \A i \in 1..Len(emitLog) :
        /\ emitLog[i].hashEqual => (~emitLog[i].wroteReg /\ ~emitLog[i].wroteSvc)
        /\ ~emitLog[i].hashEqual => (emitLog[i].wroteReg /\ emitLog[i].wroteSvc)

\* C7: two records of a class that differ only in the order of tags,
\* properties or methods have the same hash.
C7_HashOrderIndependent == (h1 # <<>> /\ SameUpToOrder(hc1, hc2)) => h1 = h2

\* C8: the cache file changes only at the end of a run that completed: a
\* run that failed left it as it was, a run that had a write or directory
\* failure never completes, and a completed run left the cache either
\* rewritten or, when the cache write failed, as it was.
C8_CacheWrittenOnlyAfterSuccess ==
    /\ pc # "done" => cacheFile = cacheAtStart
    /\ pc = "failed" => error \in {"io", "attr"}
    /\ pc = "done" =>
          /\ error = "none"
          /\ cacheFile \in {[kind |-> "map", map |-> class_hash_map], cacheAtStart}

\* a run that wrote files and computed hashes, then failed on a write
C8_Witness ==
    /\ pc = "failed"
    /\ error = "io"
    /\ written # {}
    /\ class_hash_map # EmptyMap
    /\ cacheFile = cacheAtStart

\* the source file lies in Tests/ or below it
InTestsSubtree(c) == Len(RelDir(c)) >= 1 /\ RelDir(c)[1] = "Tests"

\* C9: after a run, a class of the Tests subtree is in no aggregator file,
\* and its two fragments are on disk.
C9_TestsExcluded ==
    pc = "done" =>
        \A c \in Range(all_classes) :
            InTestsSubtree(c) =>
                /\ c.src \notin disk[HeaderPath].includes
                /\ ~Contains(disk[RegistrationsPath].called, c.name)
                /\ ~Contains(disk[ServicesPath].called, c.name)
                /\ ~Contains(disk[CompilationPath].included, RegPath(c))
                /\ {RegPath(c), SvcPath(c)} \subseteq DOMAIN disk

\* C10: when a run saw one class name in two directories, the persisted
\* hash of the name is that of the later record, and the registrations and
\* services files declare and call the name once.
C10_LaterDuplicateWins ==
    pc = "done" =>
        \A i, j \in 1..Len(all_classes) :
            (i < j /\ all_classes[i].name = all_classes[j].name
                   /\ RelDir(all_classes[i]) # RelDir(all_classes[j])
                   /\ Filtered(<<all_classes[i], all_classes[j]>>) # <<>>) =>
                /\ class_hash_map[all_classes[j].name] = ClassHash(all_classes[j])
                /\ Count(disk[RegistrationsPath].declared, all_classes[j].name) = 1
                /\ Count(disk[RegistrationsPath].called, all_classes[j].name) = 1
                /\ Count(disk[ServicesPath].declared, all_classes[j].name) = 1
                /\ Count(disk[ServicesPath].called, all_classes[j].name) = 1

\* C11: any two class records of a run have disjoint fragment paths, and
\* after the run every fragment holds the content of its own class, so the
\* order of emission does not show.
C11_FragmentPathsUnique ==
    /\ \A i, j \in 1..Len(all_classes) :
           i # j => {RegPath(all_classes[i]), SvcPath(all_classes[i])}
                        \cap {RegPath(all_classes[j]), SvcPath(all_classes[j])} = {}
    /\ pc = "done" =>
           \A c \in Range(all_classes) :
               /\ disk[RegPath(c)] = RegContent(c)
               /\ disk[SvcPath(c)] = SvcContent(c, skipFactoryEnv)

----------------------------------------------------------------------------
(* The generated RegisterAllClasses of reflection_registrations.cpp at run  *)
(* time: the static initializer of reflection_init.cpp and the threads of   *)
(* the program call it; a caller loads the flag, returns when it is set,    *)
(* stores true and calls RegisterClass_<Name> of every class in turn.       *)

MaxCalls == 2

\* the static initializer of reflection_init.cpp and two program threads
Callers == {"static_init", "t1", "t2"}

\* the trees the registrations file was generated from
RuntimeTrees ==
    {<<SampleClass("A", <<"m">>, ".h")>>,
     <<SampleClass("A", <<"m">>, ".h"), SampleClass("B", <<"n">>, ".h")>>}

RuntimeInit ==
    /\ \E t \in RuntimeTrees : arg = RegistrationsContent(t)
    /\ result = <<>>
    /\ g_ReflectionInitialized = FALSE
    /\ callers = [t \in Callers |-> [pc |-> "ready", k |-> 1, calls |-> 0]]
    /\ registered = [n \in Range(arg.called) |-> 0]
    /\ MainIdle
    /\ HashIdle

\* if (g_ReflectionInitialized.load(std::memory_order_acquire)) return;
LoadFlag(t) ==
    /\ callers[t].pc = "ready"
    /\ callers[t].calls < MaxCalls
    /\ callers' = [callers EXCEPT ![t] =
                      [pc |-> IF g_ReflectionInitialized THEN "ready" ELSE "store",
                       k |-> 1, calls |-> @.calls + 1]]
    /\ UNCHANGED <<g_ReflectionInitialized, registered, mainVars, hashVars, fnVars>>

\* g_ReflectionInitialized.store(true, std::memory_order_release);
StoreFlag(t) ==
    /\ callers[t].pc = "store"
    /\ g_ReflectionInitialized' = TRUE
    /\ callers' = [callers EXCEPT ![t].pc = IF arg.called = <<>> THEN "ready" ELSE "call"]
    /\ UNCHANGED <<registered, mainVars, hashVars, fnVars>>

\* RegisterClass_<Name>(); for the next class of the list
CallRegisterClass(t) ==
    /\ callers[t].pc = "call"
    /\ registered' = [registered EXCEPT ![arg.called[callers[t].k]] = @ + 1]
    /\ callers' = [callers EXCEPT ![t] =
                      IF @.k = Len(arg.called)
                      THEN [pc |-> "ready", k |-> 1, calls |-> @.calls]
                      ELSE [pc |-> "call", k |-> @.k + 1, calls |-> @.calls]]
    /\ UNCHANGED <<g_ReflectionInitialized, mainVars, hashVars, fnVars>>

RuntimeNext ==
    \E t \in Callers : LoadFlag(t) \/ StoreFlag(t) \/ CallRegisterClass(t)

SpecRuntime == RuntimeInit /\ [][RuntimeNext]_vars

\* C12: whatever the number of calls of RegisterAllClasses and their
\* interleaving, RegisterClass_<Name> is executed at most once for every
\* class, and exactly once when some call was made and no caller is inside
\* the routine.
C12_RegisterExactlyOnce ==
    \A n \in DOMAIN registered :
        /\ registered[n] <= 1
        /\ ((\A t \in Callers : callers[t].pc = "ready")
               /\ (\E t \in Callers : callers[t].calls > 0)) => registered[n] = 1

----------------------------------------------------------------------------
(* The generated RegisterReflectedServices(Server, RequiredTags) of         *)
(* reflection_auto_mount.cpp, over the registry that the services           *)
(* fragments of the classes fill.                                           *)

MethodNames == <<"Get", "Set">>

\* a service class with one method per tag string
ServiceClass(name, methodTags, factory) ==
    [name |-> name, tags |-> <<>>, props |-> <<>>,
     meths |-> [i \in 1..Len(methodTags) |-> <<methodTags[i], MethodNames[i]>>],
     sfuncs |-> <<>>, has_rpc_factory |-> factory,
     sig_map |-> [i \in 1..Len(methodTags) |->
                     [key |-> <<methodTags[i], MethodNames[i]>>, ret |-> Strs("void"),
                      tags |-> ParseTags(methodTags[i]), params |-> <<>>,
                      comment |-> <<>>, qualifiers |-> DefaultQualifiers]],
     src |-> [dir |-> <<"svc">>, stem |-> name, ext |-> ".h"]]

MethodTagChoices ==
    {<<Strs("Admin")>>, <<Strs("Public")>>, <<Strs("Public"), Strs("Admin")>>}

MountTags == {Strs("Admin"), Strs("Public"), Strs("Debug")}

\* RpcServiceRegistry after the fragment ran: RegisterService enters the
\* service with its factory, RegisterMethod appends to its Meta.Methods
RegistryEntry(svc) ==
    LET IsMethod(line) == line.call = "RegisterMethod"
        Meta(line) == [MethodName |-> line.method, Tags |-> line.tags]
    IN [Name |-> svc[1].class,
        real |-> svc[2].real,
        Methods |-> SeqMap(Meta, SelectSeq(svc, IsMethod))]

\* the loop body of RegisterReflectedServices for one service: the service
\* is created and mounted when a method carries a required tag; Create
\* yields no service when the registered factory is the placeholder
MountOutcome(entry, RequiredTags) ==
    LET MethodMatches(m) == \E i \in 1..Len(m.Tags) : m.Tags[i] \in RequiredTags
        HasRequiredTag == \E i \in 1..Len(entry.Methods) : MethodMatches(entry.Methods[i])
    IN IF HasRequiredTag
       THEN IF entry.real THEN "mounted" ELSE "failed"
       ELSE "skipped"

RegisterReflectedServices(registry, RequiredTags) ==
    LET Names(kind) ==
            LET Is(e) == MountOutcome(e, RequiredTags) = kind
                Name(e) == e.Name
            IN SeqMap(Name, SelectSeq(registry, Is))
    IN [mounted |-> Names("mounted"), skipped |-> Names("skipped"),
        failed |-> Names("failed")]

MountInit ==
    /\ \E t1 \in MethodTagChoices, f1 \in BOOLEAN, t2 \in MethodTagChoices,
          f2 \in BOOLEAN, req \in SUBSET MountTags :
           arg = [classes |-> <<ServiceClass("S1", t1, f1), ServiceClass("S2", t2, f2)>>,
                  RequiredTags |-> req]
    /\ result = <<>>
    /\ MainIdle
    /\ HashIdle
    /\ RuntimeIdle

\* RegisterAllRpcServices fills the registry, then the services are mounted
AutoMount ==
    /\ result = <<>>
    /\ LET Frag(c) == SvcContent(c, FALSE)
       IN result' = RegisterReflectedServices(SeqMap(RegistryEntry, SeqMap(Frag, arg.classes)),
                                              arg.RequiredTags)
    /\ UNCHANGED <<arg, mainVars, hashVars, runtimeVars>>

MountNext == AutoMount

SpecMount == MountInit /\ [][MountNext]_vars

\* a method of the class carries one of the required tags
HasMatchingMethod(c, req) ==
    \E i \in 1..Len(c.meths) :
        \E j \in 1..Len(MethodTags(c, c.meths[i])) : MethodTags(c, c.meths[i])[j] \in req

\* C13: the services mounted are exactly those with a method whose tags
\* meet the required tags, and every other service is reported as skipped.
C13_MountsExactlyMatching ==
    result # <<>> =>
        \A c \in Range(arg.classes) :
            /\ Contains(result.mounted, c.name) <=> HasMatchingMethod(c, arg.RequiredTags)
            /\ Contains(result.skipped, c.name) <=> ~HasMatchingMethod(c, arg.RequiredTags)

----------------------------------------------------------------------------
(* split_params on its own.  A parameter string is a sequence of            *)
(* characters; "a" stands for any character that is no bracket, quote,      *)
(* backslash, comma or blank.                                               *)

MaxParamLen == 4

ParamChars == {"a", " ", ",", "<", ">", "(", ")", "{", "}", "'", "\"", "\\"}

\* std::map<int, std::string> m, int (*cb)(int, int), const std::string& name = "a,b"
ExampleParams ==
    <<"a", "<", "a", ",", " ", "a", ">", " ", "a", ",", " ",
      "a", " ", "(", "a", ")", "(", "a", ",", " ", "a", ")", ",", " ",
      "a", " ", "a", " ", "a", " ", "\"", "a", ",", "a", "\"">>

ParamStrings ==
    UNION {[1..n -> ParamChars] : n \in 0..MaxParamLen} \cup {ExampleParams}

SplitStart ==
    [parts |-> <<>>, buf |-> <<>>, depth_angle |-> 0, depth_paren |-> 0,
     depth_brace |-> 0, in_single |-> FALSE, in_double |-> FALSE, escape |-> FALSE]

Dec(n) == IF n > 0 THEN n - 1 ELSE n

\* as SplitChar, with a comma splitting whatever the depth of braces
SplitCharNoBraces(st, ch) ==
    IF st.in_single
    THEN [st EXCEPT !.buf = Append(@, ch),
                    !.escape = (~st.escape /\ ch = "\\"),
                    !.in_single = ~(~st.escape /\ ch = "'")]
    ELSE IF st.in_double
    THEN [st EXCEPT !.buf = Append(@, ch),
                    !.escape = (~st.escape /\ ch = "\\"),
                    !.in_double = ~(~st.escape /\ ch = "\"")]
    ELSE IF ch = "'" THEN [st EXCEPT !.in_single = TRUE, !.buf = Append(@, ch)]
    ELSE IF ch = "\"" THEN [st EXCEPT !.in_double = TRUE, !.buf = Append(@, ch)]
    ELSE IF ch = "<" THEN [st EXCEPT !.depth_angle = @ + 1, !.buf = Append(@, ch)]
    ELSE IF ch = ">" THEN [st EXCEPT !.depth_angle = Dec(@), !.buf = Append(@, ch)]
    ELSE IF ch = "(" THEN [st EXCEPT !.depth_paren = @ + 1, !.buf = Append(@, ch)]
    ELSE IF ch = ")" THEN [st EXCEPT !.depth_paren = Dec(@), !.buf = Append(@, ch)]
    ELSE IF ch = "," /\ st.depth_angle = 0 /\ st.depth_paren = 0
    THEN [st EXCEPT !.parts = Append(@, Strip(st.buf)), !.buf = <<>>]
    ELSE [st EXCEPT !.buf = Append(@, ch)]

\* split_params: one pass of the while loop, on character ch
SplitChar(st, ch) ==
    IF st.in_single
    THEN [st EXCEPT !.buf = Append(@, ch),
                    !.escape = (~st.escape /\ ch = "\\"),
                    !.in_single = ~(~st.escape /\ ch = "'")]
    ELSE IF st.in_double
    THEN [st EXCEPT !.buf = Append(@, ch),
                    !.escape = (~st.escape /\ ch = "\\"),
                    !.in_double = ~(~st.escape /\ ch = "\"")]
    ELSE IF ch = "'" THEN [st EXCEPT !.in_single = TRUE, !.buf = Append(@, ch)]
    ELSE IF ch = "\"" THEN [st EXCEPT !.in_double = TRUE, !.buf = Append(@, ch)]
    ELSE IF ch = "<" THEN [st EXCEPT !.depth_angle = @ + 1, !.buf = Append(@, ch)]
    ELSE IF ch = ">" THEN [st EXCEPT !.depth_angle = Dec(@), !.buf = Append(@, ch)]
    ELSE IF ch = "(" THEN [st EXCEPT !.depth_paren = @ + 1, !.buf = Append(@, ch)]
    ELSE IF ch = ")" THEN [st EXCEPT !.depth_paren = Dec(@), !.buf = Append(@, ch)]
    ELSE IF ch = "{" THEN [st EXCEPT !.depth_brace = @ + 1, !.buf = Append(@, ch)]
    ELSE IF ch = "}" THEN [st EXCEPT !.depth_brace = Dec(@), !.buf = Append(@, ch)]
    ELSE IF ch = "," /\ st.depth_angle = 0 /\ st.depth_paren = 0 /\ st.depth_brace = 0
    THEN [st EXCEPT !.parts = Append(@, Strip(st.buf)), !.buf = <<>>]
    ELSE [st EXCEPT !.buf = Append(@, ch)]

RECURSIVE SplitLoop(_, _, _)
SplitLoop(param_str, i, st) ==
    IF i > Len(param_str) THEN st
    ELSE SplitLoop(param_str, i + 1, SplitChar(st, param_str[i]))

split_params(param_str) ==
    LET st == SplitLoop(param_str, 1, SplitStart)
        parts == IF st.buf # <<>> THEN Append(st.parts, Strip(st.buf)) ELSE st.parts
        NonEmpty(q) == q # <<>>
    IN SelectSeq(parts, NonEmpty)

SplitInit ==
    /\ arg \in ParamStrings
    /\ result = <<>>
    /\ MainIdle
    /\ HashIdle
    /\ RuntimeIdle

SplitParams ==
    /\ result = <<>>
    /\ result' = [parts |-> split_params(arg)]
    /\ UNCHANGED <<arg, mainVars, hashVars, runtimeVars>>

SplitNext == SplitParams

SpecSplit == SplitInit /\ [][SplitNext]_vars

\* the literal the first i characters leave open ("" for none), and whether
\* its last character was an escaping backslash
RECURSIVE LiteralAfter(_, _)
LiteralAfter(s, i) ==
    IF i = 0 THEN [q |-> "", esc |-> FALSE]
    ELSE LET before == LiteralAfter(s, i - 1)
         IN IF before.q = ""
            THEN IF s[i] \in {"'", "\""} THEN [q |-> s[i], esc |-> FALSE] ELSE before
            ELSE IF before.esc THEN [q |-> before.q, esc |-> FALSE]
            ELSE IF s[i] = "\\" THEN [q |-> before.q, esc |-> TRUE]
            ELSE IF s[i] = before.q THEN [q |-> "", esc |-> FALSE]
            ELSE before

\* character i is neither inside a quoted literal nor one of its quotes
OutsideLiteral(s, i) == LiteralAfter(s, i - 1).q = "" /\ s[i] \notin {"'", "\""}

\* the nesting depth of one kind of bracket after the first i characters;
\* a closing bracket with nothing open closes nothing
RECURSIVE NestingDepth(_, _, _, _)
NestingDepth(s, i, open, close) ==
    IF i = 0 THEN 0
    ELSE IF ~OutsideLiteral(s, i) THEN NestingDepth(s, i - 1, open, close)
    ELSE IF s[i] = open THEN NestingDepth(s, i - 1, open, close) + 1
    ELSE IF s[i] = close THEN Dec(NestingDepth(s, i - 1, open, close))
    ELSE NestingDepth(s, i - 1, open, close)

TopLevelCommas(s) ==
    {i \in 1..Len(s) :
        /\ s[i] = ","
        /\ OutsideLiteral(s, i)
        /\ NestingDepth(s, i - 1, "<", ">") = 0
        /\ NestingDepth(s, i - 1, "(", ")") = 0
        /\ NestingDepth(s, i - 1, "{", "}") = 0}

\* the text between the cuts, from position start on
RECURSIVE SegmentsFrom(_, _, _)
SegmentsFrom(s, start, cuts) ==
    LET later == {c \in cuts : c >= start}
    IN IF later = {} THEN <<SubSeq(s, start, Len(s))>>
       ELSE LET k == CHOOSE c \in later : \A d \in later : c <= d
            IN <<SubSeq(s, start, k - 1)>> \o SegmentsFrom(s, k + 1, cuts)

\* C14: split_params cuts the string at exactly its top-level commas: when
\* no segment between them is empty, the parts are the trimmed segments in
\* source order, one more than there are top-level commas.
C14_SplitsAtTopLevelCommas ==
    result # <<>> =>
        LET cuts == TopLevelCommas(arg)
            segs == SeqMap(Strip, SegmentsFrom(arg, 1, cuts))
        IN (\A i \in 1..Len(segs) : segs[i] # <<>>) =>
               /\ result.parts = segs
               /\ Len(result.parts) = Cardinality(cuts) + 1

\* the example of the specification: three parameters, commas inside angle
\* brackets, inside parentheses and inside a string literal
C14_Witness ==
    /\ arg = ExampleParams
    /\ result # <<>>
    /\ Len(result.parts) = 3
    /\ Cardinality({i \in 1..Len(arg) : arg[i] = ","}) = 5

----------------------------------------------------------------------------
(* extract_param_name on its own.  A parameter declaration is a sequence    *)
(* of tokens: identifiers, numbers, single punctuation characters, "::"     *)
(* and blanks.                                                              *)

Identifiers ==
    {"int", "unsigned", "const", "void", "Foo", "Cls", "std", "string", "vector",
     "maybe_unused", "__attribute__", "x", "cb"}

IsIdent(t) == t \in Identifiers

\* the blanks from position i on are skipped: the first position that
\* holds no blank
RECURSIVE SkipBlanks(_, _)
SkipBlanks(s, i) == IF i <= Len(s) /\ IsBlank(s[i]) THEN SkipBlanks(s, i + 1) ELSE i

TokenAt(s, i) == IF i >= 1 /\ i <= Len(s) THEN s[i] ELSE "<end>"

\* the first position from i on that holds token t, Len(s) + 1 if none
RECURSIVE FindFrom(_, _, _)
FindFrom(s, i, t) == IF i > Len(s) \/ s[i] = t THEN i ELSE FindFrom(s, i + 1, t)

\* re.sub(r"\[\[[^\]]*\]\]", " ", param)
RECURSIVE StripAttributes(_)
StripAttributes(s) ==
    LET Ends(i) == FindFrom(s, i + 2, "]")
        starts == {i \in 1..Len(s) :
                      /\ s[i] = "[" /\ TokenAt(s, i + 1) = "["
                      /\ Ends(i) <= Len(s) /\ TokenAt(s, Ends(i) + 1) = "]"}
    IN IF starts = {} THEN s
       ELSE LET i == CHOOSE k \in starts : \A m \in starts : k <= m
            IN SubSeq(s, 1, i - 1) \o <<" ">>
                   \o StripAttributes(SubSeq(s, Ends(i) + 2, Len(s)))

\* re.sub(r"__attribute__\s*\(.*?\)", " ", param)
RECURSIVE StripGnuAttributes(_)
StripGnuAttributes(s) ==
    LET Close(i) == FindFrom(s, SkipBlanks(s, i + 1) + 1, ")")
        starts == {i \in 1..Len(s) :
                      /\ s[i] = "__attribute__"
                      /\ TokenAt(s, SkipBlanks(s, i + 1)) = "("
                      /\ Close(i) <= Len(s)}
    IN IF starts = {} THEN s
       ELSE LET i == CHOOSE k \in starts : \A m \in starts : k <= m
            IN SubSeq(s, 1, i - 1) \o <<" ">>
                   \o StripGnuAttributes(SubSeq(s, Close(i) + 1, Len(s)))

\* the name matched at an opening parenthesis by
\* \(\s*(?:ident\s*::\s*)?[*&]\s*(ident)\s*\), "" when there is no match
PointerNameAt(s, i) ==
    LET a == SkipBlanks(s, i + 1)
        \* after an optional "ident ::"
        b == IF IsIdent(TokenAt(s, a)) /\ TokenAt(s, SkipBlanks(s, a + 1)) = "::"
             THEN SkipBlanks(s, SkipBlanks(s, a + 1) + 1)
             ELSE a
        c == SkipBlanks(s, b + 1)
    IN IF /\ TokenAt(s, i) = "("
          /\ TokenAt(s, b) \in {"*", "&"}
          /\ IsIdent(TokenAt(s, c))
          /\ TokenAt(s, SkipBlanks(s, c + 1)) = ")"
       THEN s[c]
       ELSE ""

\* str.split(): the maximal runs of tokens that are no blanks
RECURSIVE Words(_)
Words(s) ==
    LET t == LStrip(s)
        k == FindFrom(t, 1, " ")
    IN IF t = <<>> THEN <<>>
       ELSE <<SubSeq(t, 1, k - 1)>> \o Words(SubSeq(t, k, Len(t)))

\* extract_param_name; "" stands for None
extract_param_name(original) ==
    LET param == StripGnuAttributes(StripAttributes(
                     IF Contains(original, "=")
                     THEN Strip(SplitOn(original, "=")[1])
                     ELSE original))
        pointers == {i \in 1..Len(param) : PointerNameAt(param, i) # ""}
        Blanked(t) == IF t \in {"&", "*", "[", "]"} THEN " " ELSE t
        tokens == Words(SeqMap(Blanked, param))
        cand == tokens[Len(tokens)]
        idents == {i \in 1..Len(param) : IsIdent(param[i])}
    IN IF pointers # {}
       THEN PointerNameAt(param, CHOOSE i \in pointers : \A j \in pointers : i <= j)
       ELSE IF tokens # <<>> /\ Len(cand) = 1 /\ IsIdent(cand[1]) THEN cand[1]
       ELSE IF idents # {} THEN param[CHOOSE i \in idents : \A j \in idents : j <= i]
       ELSE ""

ParamTypes ==
    {<<"int">>, <<"const", " ", "Foo">>, <<"std", "::", "string">>,
     <<"unsigned", " ", "int">>, <<"std", "::", "vector", "<", "int", ">">>}

ParamSigils == {<<>>, <<"&">>, <<"*">>, <<"&", "&">>}

\* what follows the type: nothing (a type-only parameter), a name, or a
\* name with an array bound
ParamDeclarators ==
    {[text |-> <<>>, name |-> ""],
     [text |-> <<" ", "x">>, name |-> "x"],
     [text |-> <<" ", "cb">>, name |-> "cb"],
     [text |-> <<" ", "x", "[", "2", "]">>, name |-> "x"]}

ParamDefaults == {<<>>, <<" ", "=", " ", "0">>}

ParamAttributes ==
    {<<>>, <<"[", "[", "maybe_unused", "]", "]", " ">>,
     <<"__attribute__", "(", "(", "maybe_unused", ")", ")", " ">>}

\* function pointers: named, member, and type-only
PointerParams ==
    {[text |-> <<"int", " ", "(", "*", "cb", ")", "(", "int", ")">>, name |-> "cb"],
     [text |-> <<"void", " ", "(", "Cls", "::", " ", "*", "cb", ")", "(", "int", ")">>,
      name |-> "cb"],
     [text |-> <<"int", " ", "(", "*", ")", "(", "int", ")">>, name |-> ""]}

\* the declarations with the name each declares ("" for a type-only one)
ParamDecls ==
    {[text |-> a \o t \o g \o d.text \o v, name |-> d.name] :
        a \in ParamAttributes, t \in ParamTypes, g \in ParamSigils,
        d \in ParamDeclarators, v \in ParamDefaults}
    \cup PointerParams

ParamNameInit ==
    /\ arg \in ParamDecls
    /\ result = <<>>
    /\ MainIdle
    /\ HashIdle
    /\ RuntimeIdle

ExtractParamName ==
    /\ result = <<>>
    /\ result' = [name |-> extract_param_name(arg.text)]
    /\ UNCHANGED <<arg, mainVars, hashVars, runtimeVars>>

ParamNameNext == ExtractParamName

SpecParamName == ParamNameInit /\ [][ParamNameNext]_vars

\* C15: for a parameter declared with a type only, extract_param_name
\* returns no name.
C15_TypeOnlyHasNoName == (result # <<>> /\ arg.name = "") => result.name = ""

----------------------------------------------------------------------------
(* The record of one method: _parse_qualifiers_from_tags reads the tag      *)
(* string and the lines of the class text that precede the annotation;      *)
(* generate_per_class_files turns the record into the RegisterMethodEx      *)
(* call.  A line is a sequence of tokens.                                   *)

MaxBodyLines == 2

\* the tokens of the lines below that contain the word as a substring
TokensContaining(word) ==
    CASE word = "const" -> {"const", "constexpr"}
      [] word = "static" -> {"static", "static_cast"}
      [] OTHER -> {word}

\* 'word' in line
HasWord(line, word) == \E i \in 1..Len(line) : line[i] \in TokensContaining(word)

\* ' const' in f' {line}': the word starts the line or follows a blank
HasConstAfterBlank(line) ==
    \E i \in 1..Len(line) :
        /\ line[i] \in TokensContaining("const")
        /\ (i = 1 \/ line[i - 1] = " ")

IsCommentOrEmpty(line) == line = <<>> \/ line[1] = "//" \/ line[1] = "/*"

\* the qualifiers as the lines from the last one up to the first that holds
\* both parentheses set them
RECURSIVE ScanQualifiers(_, _, _)
ScanQualifiers(lines, k, q) ==
    IF k = 0 THEN q
    ELSE LET line == Strip(lines[k])
             q1 == [q EXCEPT
                      !.is_const = @ \/ HasConstAfterBlank(line),
                      !.is_noexcept = @ \/ HasWord(line, "noexcept"),
                      !.is_override = @ \/ HasWord(line, "override"),
                      !.is_final = @ \/ HasWord(line, "final"),
                      !.is_virtual = @ \/ HasWord(line, "virtual"),
                      !.is_inline = @ \/ HasWord(line, "inline"),
                      !.is_static = @ \/ HasWord(line, "static"),
                      !.other_qualifiers =
                          IF HasWord(line, "explicit") THEN Append(@, "explicit") ELSE @]
         IN IF IsCommentOrEmpty(line) THEN ScanQualifiers(lines, k - 1, q)
            ELSE IF Contains(line, "(") /\ Contains(line, ")") THEN q1
            ELSE ScanQualifiers(lines, k - 1, q1)

AccessTags == {Strs("Public"), Strs("Protected"), Strs("Private"), Strs("Friend")}

\* _parse_qualifiers_from_tags
ParseQualifiersFromTags(tag_str, lines) ==
    LET tags == ParseTags(tag_str)
        access == {i \in 1..Len(tags) : tags[i] \in AccessTags}
        IsExplicit(t) == t = Strs("Explicit")
        Lower(t) == "explicit"
        fromTags ==
            [is_pure_function |-> Contains(tags, Strs("PureFunction")),
             is_const |-> FALSE, is_noexcept |-> FALSE, is_virtual |-> FALSE,
             is_override |-> FALSE, is_final |-> FALSE, is_inline |-> FALSE,
             is_deprecated |-> Contains(tags, Strs("Deprecated")),
             is_static |-> FALSE,
             access_modifier |->
                 IF access = {} THEN "Public"
                 ELSE tags[CHOOSE i \in access : \A j \in access : j <= i][1],
             other_qualifiers |-> SeqMap(Lower, SelectSeq(tags, IsExplicit))]
    IN ScanQualifiers(lines, Len(lines), fromTags)

RECURSIVE JoinWith(_, _)
JoinWith(ss, sep) ==
    IF ss = <<>> THEN <<>>
    ELSE IF Len(ss) = 1 THEN ss[1]
    ELSE ss[1] \o <<sep>> \o JoinWith(Tail(ss), sep)

\* _extract_method_comment: the comment lines right above the annotation
RECURSIVE CommentLines(_, _)
CommentLines(lines, k) ==
    IF k = 0 THEN <<>>
    ELSE LET line == Strip(lines[k])
             Text(c) == IF c = <<>> THEN <<>> ELSE <<c>>
         IN IF line = <<>> THEN CommentLines(lines, k - 1)
            ELSE IF line[1] = "//"
            THEN CommentLines(lines, k - 1) \o Text(Strip(Tail(line)))
            ELSE IF line[1] = "/*" /\ line[Len(line)] = "*/"
            THEN CommentLines(lines, k - 1) \o Text(Strip(SubSeq(line, 2, Len(line) - 1)))
            ELSE <<>>

ExtractMethodComment(lines) == JoinWith(CommentLines(lines, Len(lines)), " ")

\* extract_members for a class text that holds one annotated method
\* "void Run()" below the given lines: the class record main() builds
MethodClass(tag, lines) ==
    [name |-> "A", tags |-> <<"Game">>, props |-> <<>>,
     meths |-> <<<<tag, "Run">>>>, sfuncs |-> <<>>, has_rpc_factory |-> FALSE,
     sig_map |-> <<[key |-> <<Strip(tag), "Run">>, ret |-> Strs("void"),
                    tags |-> ParseTags(Strip(tag)), params |-> <<>>,
                    comment |-> ExtractMethodComment(lines),
                    qualifiers |-> ParseQualifiersFromTags(Strip(tag), lines)]>>,
     src |-> [dir |-> <<>>, stem |-> "A", ext |-> ".h"]]

RpcConstDeprecated == <<"Rpc", "|", "Const", "|", "Deprecated">>

MethodTagStrings ==
    {RpcConstDeprecated, <<"Rpc">>, <<"Const">>, <<>>,
     <<"Rpc", ",", " ", "Deprecated", "|", "Rpc">>,
     <<"PureFunction", "|", "Private", "|", "Explicit">>}

\* the lines of a class body that may stand above the annotation
BodyLines ==
    {<<"public", ":">>,
     <<" ", " ", "int", " ", "Get", "(", ")", " ", "const", ";">>,
     <<"//", " ", "const", " ", "getter">>,
     <<>>,
     <<"static", " ", "constexpr", " ", "int", " ", "N", " ", "=", " ", "1", ";">>,
     <<"virtual", " ", "void", " ", "Stop", "(", ")", " ", "noexcept", " ",
       "override", " ", "final", ";">>,
     <<"explicit", " ", "inline", " ", "A", "(", "int", " ", "v", ")", ";">>}

\* the class text up to the annotation: the class annotation, the head of
\* the class, lines of the body, the indentation of the annotation
TextBefore(body) ==
    <<<<"HCLASS", "(", "Game", ")">>, <<"class", " ", "A", " ", "{">>>>
        \o body \o <<<<" ", " ">>>>

MethodInit ==
    /\ \E tag \in MethodTagStrings,
          body \in UNION {[1..n -> BodyLines] : n \in 0..MaxBodyLines} :
           arg = [tag |-> tag, lines |-> TextBefore(body)]
    /\ result = <<>>
    /\ MainIdle
    /\ HashIdle
    /\ RuntimeIdle

\* the RegisterMethodEx call emitted for the method
EmitMethod ==
    /\ result = <<>>
    /\ result' = MethodLine(MethodClass(arg.tag, arg.lines), <<arg.tag, "Run">>)
    /\ UNCHANGED <<arg, mainVars, hashVars, runtimeVars>>

MethodNext == EmitMethod

SpecMethod == MethodInit /\ [][MethodNext]_vars

\* C16: a method tagged Rpc|Const|Deprecated is registered with the tags
\* Rpc, Deprecated in this order and with IsConst and IsDeprecated true,
\* whatever precedes the annotation.
C16_ConstTagSetsIsConst ==
    (result # <<>> /\ arg.tag = RpcConstDeprecated) =>
        /\ result.tags = <<Strs("Rpc"), Strs("Deprecated")>>
        /\ result.qualifiers.is_const
        /\ result.qualifiers.is_deprecated

----------------------------------------------------------------------------
(* The registration fragment of one class, over the properties the class    *)
(* declares and the extension of the file that holds it.                    *)

MaxProps == 2

\* scan_sources: the extensions of the files that are read
ScannedExts == {".h", ".hpp", ".cpp", ".cc", ".cxx"}

\* (tag, member) pairs as PROP_RE captures them: one tag, no tag, two tags
\* separated by a comma and a blank, a quoted tag
PropChoices ==
    {<<Strs("Config"), "x">>,
     <<<<>>, "y">>,
     <<<<"Config", ",", " ", "Save">>, "z">>,
     <<<<"\"", "Save", "\"">>, "w">>}

\* the sequences of distinct properties
PropLists ==
    {ps \in UNION {[1..n -> PropChoices] : n \in 0..MaxProps} :
        \A i, j \in 1..Len(ps) : i # j => ps[i] # ps[j]}

PropsClass(ext, props) ==
    [name |-> "A", tags |-> <<"Game">>, props |-> props, meths |-> <<>>,
     sfuncs |-> <<>>, has_rpc_factory |-> FALSE, sig_map |-> <<>>,
     src |-> [dir |-> <<"m">>, stem |-> "A", ext |-> ext]]

PropsInit ==
    /\ \E ext \in ScannedExts, props \in PropLists : arg = PropsClass(ext, props)
    /\ result = <<>>
    /\ MainIdle
    /\ HashIdle
    /\ RuntimeIdle

\* generate_per_class_files: the registration fragment of the class
EmitRegistration ==
    /\ result = <<>>
    /\ result' = [reg |-> RegContent(arg)]
    /\ UNCHANGED <<arg, mainVars, hashVars, runtimeVars>>

PropsNext == EmitRegistration

SpecProps == PropsInit /\ [][PropsNext]_vars

PropertyCalls(reg) == LET IsProp(line) == line.call = "RegisterProperty" IN SelectSeq(reg, IsProp)

\* C17: every property of a class found in a .h or .hpp file is registered
\* with its offsetof/sizeof expression, every property of a class found in
\* a .cpp, .cc or .cxx file with the placeholders 0, 0.
C17_LayoutFollowsExtension ==
    result # <<>> =>
        \A i \in 1..Len(PropertyCalls(result.reg)) :
            LET line == PropertyCalls(result.reg)[i]
            IN /\ arg.src.ext \in {".h", ".hpp"} =>
                      line.layout = <<"offsetof", arg.name, line.member>>
               /\ arg.src.ext \in {".cpp", ".cc", ".cxx"} => line.layout = <<"0", "0">>

\* a class of a .hpp file whose property is registered with offsetof
C17_Witness ==
    /\ result # <<>>
    /\ arg.src.ext = ".hpp"
    /\ \E i \in 1..Len(result.reg) :
           /\ result.reg[i].call = "RegisterProperty"
           /\ result.reg[i].member = "x"
           /\ result.reg[i].layout[1] = "offsetof"

\* C19: for every (tag, member) pair of the class, the registration
\* fragment holds exactly one RegisterProperty call with that member and
\* that tag.
C19_EveryPropertyRegistered ==
    result # <<>> =>
        \A i \in 1..Len(arg.props) :
            Cardinality({k \in 1..Len(result.reg) :
                            /\ result.reg[k].call = "RegisterProperty"
                            /\ result.reg[k].member = arg.props[i][2]
                            /\ result.reg[k].tag = CleanTag(arg.props[i][1])}) = 1

----------------------------------------------------------------------------
(* parse_file: the annotated classes of one source file.  The text of a     *)
(* file is a sequence of tokens, "\n" ends a line.                          *)

IsSpace(t) == t \in {" ", "\n"}

RECURSIVE SkipSpace(_, _)
SkipSpace(s, i) == IF i <= Len(s) /\ IsSpace(s[i]) THEN SkipSpace(s, i + 1) ELSE i

Punctuation ==
    {" ", "\n", "(", ")", "{", "}", ";", ":", ",", "|", "=", "<", ">", "*", "&", "::",
     "//", "/*", "*/", "<end>"}

\* \w+
IsWord(t) == t \notin Punctuation

NoMatch == [start |-> 0]

\* \bHCLASS\s*\(([^)]*)\)\s*class\s+(\w+) matched at position i
AnnotationThenClass(text, i) ==
    LET open == SkipSpace(text, i + 1)
        close == FindFrom(text, open + 1, ")")
        class == SkipSpace(text, close + 1)
        name == SkipSpace(text, class + 1)
    IN IF /\ TokenAt(text, i) = "HCLASS"
          /\ TokenAt(text, open) = "("
          /\ close <= Len(text)
          /\ TokenAt(text, class) = "class"
          /\ name > class + 1
          /\ IsWord(TokenAt(text, name))
       THEN [start |-> i, end |-> name, class_name |-> text[name],
             class_tags |-> SubSeq(text, open + 1, close - 1)]
       ELSE NoMatch

\* class\s+(\w+)[^{]*\{[^}]*HCLASS\s*\(([^)]*)\) matched at position i: the
\* last annotation between the first opening brace and the first closing
\* brace after it
ClassThenAnnotation(text, i) ==
    LET name == SkipSpace(text, i + 1)
        brace == FindFrom(text, name + 1, "{")
        limit == FindFrom(text, brace + 1, "}")
        Open(h) == SkipSpace(text, h + 1)
        Close(h) == FindFrom(text, Open(h) + 1, ")")
        hs == {h \in (brace + 1)..(limit - 1) :
                  /\ TokenAt(text, h) = "HCLASS"
                  /\ TokenAt(text, Open(h)) = "("
                  /\ Close(h) <= Len(text)}
    IN IF /\ TokenAt(text, i) = "class"
          /\ name > i + 1
          /\ IsWord(TokenAt(text, name))
          /\ brace <= Len(text)
          /\ hs # {}
       THEN LET h == CHOOSE x \in hs : \A y \in hs : y <= x
            IN [start |-> i, end |-> Close(h), class_name |-> text[name],
                class_tags |-> SubSeq(text, Open(h) + 1, Close(h) - 1)]
       ELSE NoMatch

ClassMatchAt(text, i) ==
    IF AnnotationThenClass(text, i) # NoMatch THEN AnnotationThenClass(text, i)
    ELSE ClassThenAnnotation(text, i)

\* CLASS_RE.finditer(text): the matches from position i on, left to right,
\* none overlapping another
RECURSIVE ClassMatches(_, _)
ClassMatches(text, i) ==
    IF i > Len(text) THEN <<>>
    ELSE IF ClassMatchAt(text, i) = NoMatch THEN ClassMatches(text, i + 1)
    ELSE <<ClassMatchAt(text, i)>> \o ClassMatches(text, ClassMatchAt(text, i).end + 1)

\* the class names of the files below that start with the given name
NamesStartingWith(class_name) == IF class_name = "A" THEN {"A", "AB"} ELSE {class_name}

\* f'class {class_name}' in line
HasClassHead(line, class_name) ==
    \E i \in 1..(Len(line) - 2) :
        /\ line[i] = "class"
        /\ line[i + 1] = " "
        /\ line[i + 2] \in NamesStartingWith(class_name)

\* line.count('{') - line.count('}')
BraceBalance(line) == Count(line, "{") - Count(line, "}")

\* the line that follows the end of a class stops the extraction
StopsAfterClass(next_line) ==
    \/ Strip(next_line) = <<>>
    \/ Strip(next_line)[1] \in {"//", "HCLASS", "class"}

\* _extract_class_text: the loop over the lines from line i on; the result
\* is the number of lines taken
RECURSIVE ExtractLoop(_, _, _, _, _)
ExtractLoop(lines, i, class_name, found_class, brace_count) ==
    IF i > Len(lines) THEN Len(lines)
    ELSE IF HasClassHead(lines[i], class_name) /\ Contains(lines[i], "{")
    THEN ExtractLoop(lines, i + 1, class_name, TRUE, BraceBalance(lines[i]))
    ELSE IF found_class
    THEN LET count == brace_count + BraceBalance(lines[i])
         IN IF count <= 0 /\ Contains(lines[i], "}")
                 /\ (i = Len(lines) \/ StopsAfterClass(lines[i + 1]))
            THEN i
            ELSE ExtractLoop(lines, i + 1, class_name, TRUE, count)
    ELSE ExtractLoop(lines, i + 1, class_name, FALSE, brace_count)

\* _extract_class_text: the lines of the class, from the match on
ExtractClassText(text, start_pos, class_name) ==
    LET lines == SplitOn(SubSeq(text, start_pos, Len(text)), "\n")
    IN SubSeq(lines, 1, ExtractLoop(lines, 1, class_name, FALSE, 0))

\* re.sub(r"/\*.*?\*/", "", line)
RECURSIVE StripBlockComments(_)
StripBlockComments(line) ==
    LET open == FindFrom(line, 1, "/*")
        close == FindFrom(line, open + 1, "*/")
    IN IF close > Len(line) THEN line
       ELSE SubSeq(line, 1, open - 1) \o StripBlockComments(SubSeq(line, close + 1, Len(line)))

\* _strip_line_comments, for one line
StripLineComments(line) ==
    StripBlockComments(SubSeq(line, 1, FindFrom(line, 1, "//") - 1))

\* RPC_FACTORY_RE.search: \bHRPC_FACTORY\s*\(\s*\)
HasRpcFactory(text) ==
    \E i \in 1..Len(text) :
        /\ text[i] = "HRPC_FACTORY"
        /\ TokenAt(text, SkipSpace(text, i + 1)) = "("
        /\ TokenAt(text, SkipSpace(text, SkipSpace(text, i + 1) + 1)) = ")"

\* parse_file: one tuple per match of CLASS_RE whose groups are both
\* non-empty strings; a match with nothing between the parentheses of the
\* annotation is passed over
parse_file(text) ==
    LET Tuple(m) ==
            LET class_text == ExtractClassText(text, m.start, m.class_name)
            IN [class_name |-> m.class_name, class_tags |-> Strip(m.class_tags),
                class_text |-> class_text,
                has_rpc_factory |->
                    HasRpcFactory(JoinWith(SeqMap(StripLineComments, class_text), "\n"))]
        Truthy(m) == m.class_tags # <<>>
    IN SeqMap(Tuple, SelectSeq(ClassMatches(text, 1), Truthy))

MaxChunks == 3

\* pieces of a source file: an annotated forward declaration, a class with
\* the brace on the line of its head, one with the brace on a line of its
\* own, one annotated inside its body, one written on a single line
\* without tags and one with a tag, a comment, an empty line, a declaration
\* outside any class
FileChunks ==
    {<<<<"HCLASS", "(", "Fwd", ")", " ", "class", " ", "F", ";">>>>,
     <<<<"HCLASS", "(", "Game", ")">>,
       <<"class", " ", "A", " ", "{">>,
       <<" ", " ", "HPROPERTY", "(", "Config", ")", " ", "int", " ", "x", ";">>,
       <<"}", ";">>>>,
     <<<<"HCLASS", "(", ")">>,
       <<"class", " ", "B">>,
       <<"{">>,
       <<" ", " ", "HMETHOD", "(", "Rpc", ")", " ", "void", " ", "Run", "(", ")", ";">>,
       <<"}", ";">>>>,
     <<<<"class", " ", "C", " ", "{">>,
       <<" ", " ", "HCLASS", "(", "Inner", ")">>,
       <<" ", " ", "HRPC_FACTORY", "(", ")">>,
       <<"}", ";">>>>,
     <<<<"HCLASS", "(", ")", " ", "class", " ", "AB", " ", "{", " ", "}", ";">>>>,
     <<<<"HCLASS", "(", "One", ")", " ", "class", " ", "D", " ", "{", " ", "}", ";">>>>,
     <<<<"//", " ", "HRPC_FACTORY", "(", ")">>>>,
     <<<<>>>>,
     <<<<"int", " ", "g", ";">>>>}

FileTexts ==
    {JoinWith(Flatten(chunks), "\n") :
        chunks \in UNION {[1..n -> FileChunks] : n \in 0..MaxChunks}}

ParseInit ==
    /\ arg \in FileTexts
    /\ result = <<>>
    /\ MainIdle
    /\ HashIdle
    /\ RuntimeIdle

ParseFile ==
    /\ result = <<>>
    /\ result' = [classes |-> parse_file(arg)]
    /\ UNCHANGED <<arg, mainVars, hashVars, runtimeVars>>

ParseNext == ParseFile

SpecParse == ParseInit /\ [][ParseNext]_vars

\* a line from the match on holds both the head of the class and a brace
HasBodyDelimiter(text, m) ==
    LET lines == SplitOn(SubSeq(text, m.start, Len(text)), "\n")
    IN \E i \in 1..Len(lines) :
           HasClassHead(lines[i], m.class_name) /\ Contains(lines[i], "{")

\* C18: parse_file returns no tuple for an annotated class without a body
\* delimiter: it returns no more tuples of a name than there are annotated
\* classes of that name with a body delimiter.
C18_ClassWithoutBodyDropped ==
    result # <<>> =>
        LET ms == ClassMatches(arg, 1)
        IN \A k \in 1..Len(ms) :
               Cardinality({j \in 1..Len(result.classes) :
                               result.classes[j].class_name = ms[k].class_name})
                   <= Cardinality({j \in 1..Len(ms) :
                                      /\ ms[j].class_name = ms[k].class_name
                                      /\ HasBodyDelimiter(arg, ms[j])})

\* the line, counted from the match, on which the brace depth counted from
\* the first line with the head of the class and a brace is back at zero;
\* 0 when there is no such line
ClosingLine(text, m) ==
    LET lines == SplitOn(SubSeq(text, m.start, Len(text)), "\n")
        IsHead(i) == HasClassHead(lines[i], m.class_name) /\ Contains(lines[i], "{")
        heads == {i \in 1..Len(lines) : IsHead(i)}
        head == CHOOSE i \in heads : \A j \in heads : i <= j
        Depth[j \in 0..Len(lines)] ==
            IF j < head THEN 0 ELSE Depth[j - 1] + BraceBalance(lines[j])
        closed == {j \in head..Len(lines) : Depth[j] <= 0}
    IN IF heads = {} \/ closed = {} THEN 0
       ELSE CHOOSE j \in closed : \A k \in closed : j <= k

\* C22: the text parse_file returns for a class begins at the annotation
\* match and holds no line after the line on which the brace depth of the
\* class is back at zero, whatever follows that line.
C22_ClassTextStopsAtClosingBrace ==
    result # <<>> =>
        LET Truthy(m) == m.class_tags # <<>>
            ms == SelectSeq(ClassMatches(arg, 1), Truthy)
        IN \A k \in 1..Len(ms) :
               LET lines == SplitOn(SubSeq(arg, ms[k].start, Len(arg)), "\n")
                   class_text == result.classes[k].class_text
               IN /\ Len(class_text) >= 1
                  /\ class_text = SubSeq(lines, 1, Len(class_text))
                  /\ ClosingLine(arg, ms[k]) > 0
                         => Len(class_text) <= ClosingLine(arg, ms[k])

----------------------------------------------------------------------------
(* The RPC method records of the services fragment, for a class whose body *)
(* is a list of annotated method declarations, overloads included.         *)

MaxDecls == 2

DeclTags ==
    {<<"Admin">>, <<"Rpc">>, <<" ", "Rpc", " ">>, <<>>, <<"Rpc", "|", "Const">>}

DeclNames == {"Run", "Stop"}

\* parameter lists: none, one named parameter, one with a braced default
DeclParams ==
    {<<>>, <<"int", " ", "x">>,
     <<"int", " ", "x", " ", "=", " ", "{", "1", "}">>}

Decls == [tag : DeclTags, name : DeclNames, params : DeclParams]

DeclLists == UNION {[1..n -> Decls] : n \in 0..MaxDecls}

\* the line of the class body that declares d
DeclLine(d) ==
    <<" ", " ", "HMETHOD", "(">> \o d.tag
        \o <<")", " ", "void", " ", d.name, "(">> \o d.params \o <<")", ";">>

\* the class text up to the annotation of the k-th declaration
DeclTextBefore(class_tags, decls, k) ==
    <<<<"HCLASS", "(">> \o class_tags \o <<")">>, <<"class", " ", "A", " ", "{">>>>
        \o [i \in 1..(k - 1) |-> DeclLine(decls[i])] \o <<<<" ", " ">>>>

\* METH_SIG_RE matches a declaration whose parameter list holds neither a
\* brace nor a semicolon
SigMatches(d) == ~Contains(d.params, "{") /\ ~Contains(d.params, ";")

\* extract_members: the maps keyed by (stripped tag, name), as one sequence
\* of entries in insertion order; a key met again keeps its place and takes
\* the new value
SigMapOf(class_tags, decls) ==
    LET Entry(k) ==
            LET d == decls[k]
                tag == Strip(d.tag)
                lines == DeclTextBefore(class_tags, decls, k)
                params_raw == Strip(d.params)
                name == IF params_raw = <<>> THEN "" ELSE extract_param_name(params_raw)
            IN [key |-> <<tag, d.name>>, ret |-> Strs("void"),
                tags |-> ParseTags(tag),
                params |-> IF name = "" THEN <<>> ELSE <<name>>,
                comment |-> ExtractMethodComment(lines),
                qualifiers |-> ParseQualifiersFromTags(tag, lines)]
        F[k \in 0..Len(decls)] ==
            IF k = 0 THEN <<>>
            ELSE IF ~SigMatches(decls[k]) THEN F[k - 1]
            ELSE LET e == Entry(k)
                     at == {i \in 1..Len(F[k - 1]) : F[k - 1][i].key = e.key}
                 IN IF at = {} THEN Append(F[k - 1], e)
                    ELSE [F[k - 1] EXCEPT ![CHOOSE i \in at : TRUE] = e]
    IN F[Len(decls)]

\* the class record main() builds for the class; class_tags holds one tag,
\* so the list of the class's tags is class_tags itself
DeclClass(class_tags, decls) ==
    [name |-> "A", tags |-> class_tags, props |-> <<>>,
     meths |-> [k \in 1..Len(decls) |-> <<decls[k].tag, decls[k].name>>],
     sfuncs |-> <<>>, has_rpc_factory |-> FALSE,
     sig_map |-> SigMapOf(class_tags, decls),
     src |-> [dir |-> <<>>, stem |-> "A", ext |-> ".h"]]

ServicesInit ==
    /\ \E class_tags \in {<<"Game">>, <<"NoAutoRegister">>},
          decls \in DeclLists, skipEnv \in BOOLEAN :
           arg = [class_tags |-> class_tags, decls |-> decls, skipEnv |-> skipEnv]
    /\ result = <<>>
    /\ MainIdle
    /\ HashIdle
    /\ RuntimeIdle

\* the services fragment generate_per_class_files writes for the class
EmitServices ==
    /\ result = <<>>
    /\ result' = [svc |-> SvcContent(DeclClass(arg.class_tags, arg.decls), arg.skipEnv)]
    /\ UNCHANGED <<arg, mainVars, hashVars, runtimeVars>>

ServicesNext == EmitServices

SpecServices == ServicesInit /\ [][ServicesNext]_vars

\* the declarations that are the first of their name, in order
FirstOccurrences(decls) ==
    LET First(k) == \A j \in 1..(k - 1) : decls[j].name # decls[k].name
        F[k \in 0..Len(decls)] ==
            IF k = 0 THEN <<>>
            ELSE IF First(k) THEN Append(F[k - 1], decls[k]) ELSE F[k - 1]
    IN F[Len(decls)]

\* the tags a declaration is annotated with, structural ones left out
BusinessTags(d) ==
    LET Business(t) == t \notin StructuralTags
    IN SelectSeq(ParseTags(Strip(d.tag)), Business)

\* C20: the services fragment holds exactly one RegisterMethod record per
\* distinct method name of the class, in order of first occurrence, each
\* with the business tags of the first declaration of that name, with and
\* without the NoAutoRegister tag on the class.
C20_OneRecordPerNameFirstWins ==
    result # <<>> =>
        LET IsRecord(l) == l.call = "RegisterMethod"
            records == SelectSeq(result.svc, IsRecord)
            firsts == FirstOccurrences(arg.decls)
        IN /\ Len(records) = Len(firsts)
           /\ \A k \in 1..Len(firsts) :
                  /\ records[k].method = firsts[k].name
                  /\ records[k].tags = BusinessTags(firsts[k])

----------------------------------------------------------------------------
(* The tag list main() records for a class, from the text between the      *)
(* parentheses of the class annotation.  A tag string is a sequence of     *)
(* tokens: tag names, ",", "|" and blanks.                                  *)

MaxTagLen == 4

TagNames == {"Game", "Scene"}

TagTokens == TagNames \cup {",", "|", " "}

\* class_tags as parse_file hands it over: stripped, and no two names
\* side by side, which would read as one longer name
TagStrings ==
    {s \in UNION {[1..n -> TagTokens] : n \in 0..MaxTagLen} :
        /\ s = Strip(s)
        /\ \A i \in 1..(Len(s) - 1) : ~(s[i] \in TagNames /\ s[i + 1] \in TagNames)}

\* main(), lines 402-403: the string is cut at its commas only; a piece
\* that is blank or holds a blank anywhere is left out, the others are
\* stripped.  The replacement of line 402 changes nothing.
ClassTagList(class_tags) ==
    LET Kept(t) == Strip(t) # <<>> /\ ~Contains(t, " ")
    IN SeqMap(Strip, SelectSeq(SplitOn(class_tags, ","), Kept))

ClassTagsInit ==
    /\ arg \in TagStrings
    /\ result = <<>>
    /\ MainIdle
    /\ HashIdle
    /\ RuntimeIdle

\* the tags of the class record main() appends to all_classes
RecordClassTags ==
    /\ result = <<>>
    /\ result' = [tags |-> ClassTagList(arg)]
    /\ UNCHANGED <<arg, mainVars, hashVars, runtimeVars>>

ClassTagsNext == RecordClassTags

SpecClassTags == ClassTagsInit /\ [][ClassTagsNext]_vars

\* C21: the tags recorded for a class are the non-empty trimmed tags of the
\* annotation's tag string, cut at "," and at "|", each exactly once, in
\* first-seen order (the list _parse_tags computes for the string).
C21_ClassTagsOrderedDedupComplete ==
    result # <<>> => result.tags = ParseTags(arg)

----------------------------------------------------------------------------
(* The fragments left in the classes directory by a run of main(). *)

\* the files of the classes directory that are named like a fragment
FragmentsOnDisk ==
    {p \in DOMAIN disk : p.area = "classes" /\ p.suffix \in FragmentSuffixes}

====
